---- MODULE Spec2Model ----
(***************************************************************************)
(* State-machine model of FPLCaptainRecommender (src/fpl_captain_system.py) *)
(* One recommender instance talks to a fixed upstream snapshot (catalog,    *)
(* fixtures, team picks).  Every public method is one atomic action: the    *)
(* program is single-threaded and synchronous.                              *)
(*                                                                          *)
(* Python values are represented as follows:                                *)
(*   None            <<>>            Some(v)  <<v>>   (cache fields)        *)
(*   dict            function whose DOMAIN is the set of keys present       *)
(*   list            sequence                                               *)
(*   insertion-ordered dict keyed by player id   sequence of <<key, value>> *)
(*   float           [whole, frac] decimal with one fractional digit        *)
(*   numeric string  sequence of one-character strings                      *)
(***************************************************************************)
EXTENDS Integers, Sequences, FiniteSets, TLC

VARIABLES
    alive,          \* TRUE once __init__ has completed: an instance exists
    bootstrap_cache,\* self._bootstrap_cache
    fixtures_cache, \* self._fixtures_cache
    teams_cache,    \* self._teams_cache
    catalog,        \* upstream payload of GET /bootstrap-static/
    fixtures_data,  \* upstream payload of GET /fixtures/
    picks_data,     \* upstream payload of GET /entry/{id}/event/{gw}/picks/, per team id
    last,           \* the last operation: its name, arguments, requests and outcome
    hist            \* history: what earlier operations of this instance returned

vars == <<alive, bootstrap_cache, fixtures_cache, teams_cache, catalog, fixtures_data,
          picks_data, last, hist>>

-----------------------------------------------------------------------------
(* Bounds of the model *)

MaxGW == 3          \* gameweek ids range over 1..MaxGW
MaxEvents == 3      \* longest events list
MaxFixtures == 2    \* longest upstream fixtures list
MaxWindow == 3      \* window sizes range over 0..MaxWindow
MaxPlayers == 2     \* longest elements list of the catalog
MaxReq == 12        \* more requests than one operation ever issues
MaxDigest == 17     \* longest upstream fixtures list of the fixture digest

-----------------------------------------------------------------------------
(* Python helpers *)

None == <<>>
Some(v) == <<v>>

\* dict.get(key, default)
Get(d, key, default) == IF key \in DOMAIN d THEN d[key] ELSE default

\* bool(dict) and bool(list): empty containers are falsy
TruthyDict(d) == DOMAIN d # {}
TruthyList(l) == l # <<>>

Range(s) == {s[i] : i \in DOMAIN s}

\* The member of a one-element set.  Only({e(x) : x \in {v}}) is e with x naming
\* the value of v: a local variable of the code, assigned once
Only(S) == CHOOSE x \in S : TRUE

\* list comprehension / for-loop filter keeping the order of s
RECURSIVE SelectIdx(_, _, _)
SelectIdx(s, keep, i) ==
    IF i > Len(s) THEN <<>>
    ELSE IF i \in keep THEN <<s[i]>> \o SelectIdx(s, keep, i + 1)
    ELSE SelectIdx(s, keep, i + 1)

SeqsUpTo(S, n) == UNION {[1..m -> S] : m \in 0..n}

-----------------------------------------------------------------------------
(* The HTTP session.  An operation stops at its first failed request, so the *)
(* network's behaviour during one operation is the number k of requests     *)
(* that succeed before one fails.                                           *)

Url(ep, id, gw) == [ep |-> ep, id |-> id, gw |-> gw]
BootstrapUrl == Url("/bootstrap-static/", 0, 0)
FixturesUrl == Url("/fixtures/", 0, 0)
EntryUrl(team_id) == Url("/entry/{id}/", team_id, 0)
PicksUrl(team_id, gw) == Url("/entry/{id}/event/{gw}/picks/", team_id, gw)

\* The state an operation threads through its calls
St(bc, fc, tc) == [bc |-> bc, fc |-> fc, tc |-> tc, reqs |-> <<>>, llm |-> 0]

\* session.get(url); response.raise_for_status()
HttpOk(st, k) == Len(st.reqs) < k
Issue(st, url) == [st EXCEPT !.reqs = Append(@, url)]

Ret(st, val) == [st |-> st, err |-> "none", val |-> val]
Raise(st, err) == [st |-> st, err |-> err, val |-> None]

-----------------------------------------------------------------------------
(* fetch_fpl_bootstrap_data *)

BootstrapCacheHit(st) == st.bc # None /\ TruthyDict(st.bc[1])

\* a variant that answers a failed request with an empty payload
fetch_fpl_bootstrap_data_or_empty(st, k) ==
    IF BootstrapCacheHit(st) THEN Ret(st, st.bc[1])
    ELSE IF HttpOk(st, k)
    THEN Ret([Issue(st, BootstrapUrl) EXCEPT !.bc = Some(catalog)], catalog)
    ELSE Ret(Issue(st, BootstrapUrl), [x \in {} |-> <<>>])

fetch_fpl_bootstrap_data(st, k) ==
    IF BootstrapCacheHit(st) THEN Ret(st, st.bc[1])
    ELSE LET st1 == Issue(st, BootstrapUrl) IN
         IF HttpOk(st, k)
         THEN Ret([st1 EXCEPT !.bc = Some(catalog)], catalog)
         ELSE Raise(st1, "Failed to fetch bootstrap data")

-----------------------------------------------------------------------------
(* get_current_gameweek *)

Flagged(events, flag) == {i \in DOMAIN events : Get(events[i], flag, FALSE)}
First(S) == CHOOSE i \in S : \A j \in S : i <= j
Last(S) == CHOOSE i \in S : \A j \in S : j <= i

ResolveGameweekCurrentOnly(events) ==
    IF Flagged(events, "is_current") # {}
    THEN events[First(Flagged(events, "is_current"))].id
    ELSE 1

ResolveGameweekNextFirst(events) ==
    IF Flagged(events, "is_next") # {}
    THEN events[First(Flagged(events, "is_next"))].id
    ELSE IF Flagged(events, "is_current") # {}
    THEN events[First(Flagged(events, "is_current"))].id
    ELSE 1

ResolveGameweek(events) ==
    IF Flagged(events, "is_current") # {}
    THEN events[First(Flagged(events, "is_current"))].id
    ELSE IF Flagged(events, "is_next") # {}
    THEN events[First(Flagged(events, "is_next"))].id
    ELSE 1

get_current_gameweek(st, k) ==
    Only({IF b.err # "none" THEN b
          ELSE Ret(b.st, ResolveGameweek(Get(b.val, "events", <<>>))) :
          b \in {fetch_fpl_bootstrap_data(st, k)}})

-----------------------------------------------------------------------------
(* get_upcoming_fixtures *)

FixtureData(fixture) ==
    [team_h |-> fixture.team_h, team_a |-> fixture.team_a,
     team_h_difficulty |-> fixture.team_h_difficulty,
     team_a_difficulty |-> fixture.team_a_difficulty,
     kickoff_time |-> fixture.kickoff_time,
     gameweek |-> fixture.event]

\* fixture.get('event') is falsy for a fixture that has no gameweek (null, here 0)
InWindowOffByOne(fixture, current_gw, gameweeks) ==
    /\ fixture.event # 0
    /\ current_gw <= fixture.event
    /\ fixture.event <= current_gw + gameweeks
    /\ ~fixture.finished

InWindow(fixture, current_gw, gameweeks) ==
    /\ fixture.event # 0
    /\ current_gw <= fixture.event
    /\ fixture.event <= current_gw + gameweeks - 1
    /\ ~fixture.finished

UpcomingOf(data, current_gw, gameweeks) ==
    LET kept == SelectIdx(data,
                    {i \in DOMAIN data : InWindow(data[i], current_gw, gameweeks)}, 1)
    IN [i \in DOMAIN kept |-> FixtureData(kept[i])]

\* a variant that serves whatever was stored, an empty list too
FixturesCacheHitIfSet(st) == st.fc # None

FixturesCacheHit(st) == st.fc # None /\ TruthyList(st.fc[1])

\* a variant that keeps the fetched list before the gameweek is resolved
get_upcoming_fixtures_store_first(st, gameweeks, k) ==
    IF FixturesCacheHit(st) THEN Ret(st, st.fc[1])
    ELSE IF ~HttpOk(st, k) THEN Raise(Issue(st, FixturesUrl), "Failed to fetch fixtures")
    ELSE Only({IF g.err # "none"
               THEN [g EXCEPT !.st.fc = Some(UpcomingOf(fixtures_data, 1, gameweeks))]
               ELSE Only({Ret([g.st EXCEPT !.fc = Some(upcoming)], upcoming) :
                          upcoming \in {UpcomingOf(fixtures_data, g.val, gameweeks)}}) :
               g \in {get_current_gameweek(Issue(st, FixturesUrl), k)}})

get_upcoming_fixtures(st, gameweeks, k) ==
    IF FixturesCacheHit(st) THEN Ret(st, st.fc[1])
    ELSE IF ~HttpOk(st, k) THEN Raise(Issue(st, FixturesUrl), "Failed to fetch fixtures")
    ELSE Only({IF g.err # "none" THEN g
               ELSE Only({Ret([g.st EXCEPT !.fc = Some(upcoming)], upcoming) :
                          upcoming \in {UpcomingOf(fixtures_data, g.val, gameweeks)}}) :
               g \in {get_current_gameweek(Issue(st, FixturesUrl), k)}})

-----------------------------------------------------------------------------
(* fetch_fpl_team_data: not cached, two requests per call *)

TeamData(st, team_id) ==
    [team_info |-> [id |-> team_id],
     picks |-> Get(picks_data[team_id], "picks", <<>>),
     active_chip |-> Get(picks_data[team_id], "active_chip", None),
     automatic_subs |-> Get(picks_data[team_id], "automatic_subs", <<>>)]

\* a variant that keeps the last team snapshot in _teams_cache
fetch_fpl_team_data_cached(st, team_id, k) ==
    IF st.tc # None /\ st.tc[1].team_info.id = team_id THEN Ret(st, st.tc[1])
    ELSE IF ~HttpOk(st, k)
    THEN Raise(Issue(st, EntryUrl(team_id)), "Failed to fetch team data")
    ELSE Only({IF g.err # "none" THEN g
               ELSE IF ~HttpOk(g.st, k)
               THEN Raise(Issue(g.st, PicksUrl(team_id, g.val)),
                          "Failed to fetch team data")
               ELSE Ret([Issue(g.st, PicksUrl(team_id, g.val))
                            EXCEPT !.tc = Some(TeamData(st, team_id))],
                        TeamData(st, team_id)) :
               g \in {get_current_gameweek(Issue(st, EntryUrl(team_id)), k)}})

fetch_fpl_team_data(st, team_id, k) ==
    IF ~HttpOk(st, k)
    THEN Raise(Issue(st, EntryUrl(team_id)), "Failed to fetch team data")
    ELSE Only({IF g.err # "none" THEN g
               ELSE IF ~HttpOk(g.st, k)
               THEN Raise(Issue(g.st, PicksUrl(team_id, g.val)),
                          "Failed to fetch team data")
               ELSE Ret(Issue(g.st, PicksUrl(team_id, g.val)),
                        TeamData(st, team_id)) :
               g \in {get_current_gameweek(Issue(st, EntryUrl(team_id)), k)}})

-----------------------------------------------------------------------------
(* Insertion-ordered dict keyed by player id: a sequence of <<key, value>> *)

Keys(d) == [i \in DOMAIN d |-> d[i][1]]
KeySet(d) == {d[i][1] : i \in DOMAIN d}
Lookup(d, key) == d[CHOOSE i \in DOMAIN d : d[i][1] = key][2]

\* a dict that puts a new key first
DictPutFront(d, key, value) ==
    IF key \in KeySet(d)
    THEN [i \in DOMAIN d |-> IF d[i][1] = key THEN <<key, value>> ELSE d[i]]
    ELSE <<<<key, value>>>> \o d

\* d[key] = value: a new key goes last, a key already present keeps its place
DictPut(d, key, value) ==
    IF key \in KeySet(d)
    THEN [i \in DOMAIN d |-> IF d[i][1] = key THEN <<key, value>> ELSE d[i]]
    ELSE Append(d, <<key, value>>)

\* {row['id']: f(row) for row in rows}
RECURSIVE DictFrom(_, _, _)
DictFrom(rows, field, i) ==
    IF i = 0 THEN <<>>
    ELSE Only({DictPut(d, rows[i].id, rows[i][field]) :
               d \in {DictFrom(rows, field, i - 1)}})

-----------------------------------------------------------------------------
(* Numbers: a float is [whole, frac] with one fractional digit *)

Digit(c) == CASE c = "0" -> 0 [] c = "1" -> 1 [] c = "2" -> 2 [] c = "3" -> 3
              [] c = "4" -> 4 [] c = "5" -> 5 [] c = "6" -> 6 [] c = "7" -> 7
              [] c = "8" -> 8 [] c = "9" -> 9

\* float("d.d") for the numeric strings of the catalog
Float(str) == [whole |-> Digit(str[1]), frac |-> Digit(str[3])]

\* now_cost / 10.0
Tenths(n) == [whole |-> n \div 10, frac |-> n % 10]

-----------------------------------------------------------------------------
(* get_player_performance_data *)

PlayerDataBlankUnknown(player, teams_lookup, positions_lookup) ==
    [id |-> player.id,
     name |-> <<player.first_name, " ", player.second_name>>,
     team |-> IF player.team \in KeySet(teams_lookup)
              THEN Lookup(teams_lookup, player.team) ELSE "",
     position |-> IF player.element_type \in KeySet(positions_lookup)
                  THEN Lookup(positions_lookup, player.element_type) ELSE "",
     price |-> Tenths(player.now_cost),
     total_points |-> player.total_points,
     form |-> Float(player.form),
     points_per_game |-> Float(player.points_per_game),
     selected_by_percent |-> Float(player.selected_by_percent),
     goals_scored |-> player.goals_scored,
     assists |-> player.assists,
     clean_sheets |-> player.clean_sheets,
     minutes |-> player.minutes,
     bonus |-> player.bonus,
     now_cost |-> player.now_cost]

PlayerData(player, teams_lookup, positions_lookup) ==
    [id |-> player.id,
     name |-> <<player.first_name, " ", player.second_name>>,
     team |-> IF player.team \in KeySet(teams_lookup)
              THEN Lookup(teams_lookup, player.team) ELSE "Unknown",
     position |-> IF player.element_type \in KeySet(positions_lookup)
                  THEN Lookup(positions_lookup, player.element_type) ELSE "Unknown",
     price |-> Tenths(player.now_cost),
     total_points |-> player.total_points,
     form |-> Float(player.form),
     points_per_game |-> Float(player.points_per_game),
     selected_by_percent |-> Float(player.selected_by_percent),
     goals_scored |-> player.goals_scored,
     assists |-> player.assists,
     clean_sheets |-> player.clean_sheets,
     minutes |-> player.minutes,
     bonus |-> player.bonus,
     now_cost |-> player.now_cost]

\* player['id'] in player_ids
ListedAll(player, player_ids) == TRUE
Listed(player, player_ids) == player.id \in Range(player_ids)

RECURSIVE PerformanceOf(_, _, _, _, _)
PerformanceOf(players, player_ids, teams_lookup, positions_lookup, i) ==
    IF i = 0 THEN <<>>
    ELSE IF Listed(players[i], player_ids)
    THEN Only({DictPut(d, players[i].id,
                       PlayerData(players[i], teams_lookup, positions_lookup)) :
               d \in {PerformanceOf(players, player_ids, teams_lookup,
                                    positions_lookup, i - 1)}})
    ELSE PerformanceOf(players, player_ids, teams_lookup, positions_lookup, i - 1)

\* {row['id']: row[field] for row in bootstrap_data.get(table, [])}
LookupTable(payload, table, field) ==
    DictFrom(Get(payload, table, <<>>), field, Len(Get(payload, table, <<>>)))

get_player_performance_data(st, player_ids, k) ==
    Only({IF b.err # "none" THEN b
          ELSE Only({Ret(b.st, PerformanceOf(Get(b.val, "elements", <<>>), player_ids,
                                             teams_lookup, positions_lookup,
                                             Len(Get(b.val, "elements", <<>>)))) :
                     teams_lookup \in {LookupTable(b.val, "teams", "name")},
                     positions_lookup \in
                         {LookupTable(b.val, "element_types", "singular_name")}}) :
          b \in {fetch_fpl_bootstrap_data(st, k)}})

-----------------------------------------------------------------------------
(* get_injury_updates *)

RiskText(chance) == CASE chance = 0 -> "Injury risk: 0%"
                      [] chance = 25 -> "Injury risk: 25%"
                      [] chance = 50 -> "Injury risk: 50%"
                      [] chance = 75 -> "Injury risk: 75%"

\* '; '.join(status)
Join2(parts) == IF Len(parts) = 2 THEN <<parts[1], "; ", parts[2]>> ELSE parts

InjuryStatus(player) ==
    LET chance == Get(player, "chance_of_playing_next_round", None)
        risk == IF chance # None /\ chance[1] < 100
                THEN <<RiskText(chance[1])>> ELSE <<>>
        news == IF Get(player, "news", "") # ""
                THEN <<player.news>> ELSE <<>>
        status == risk \o news
    IN IF status # <<>> THEN Join2(status) ELSE <<"Available">>

\* a variant that records only the players with something to report
RECURSIVE InjuriesOfFlagged(_, _, _)
InjuriesOfFlagged(players, player_ids, i) ==
    IF i = 0 THEN <<>>
    ELSE IF Listed(players[i], player_ids) /\ InjuryStatus(players[i]) # <<"Available">>
    THEN Only({DictPut(d, players[i].id, InjuryStatus(players[i])) :
               d \in {InjuriesOfFlagged(players, player_ids, i - 1)}})
    ELSE InjuriesOfFlagged(players, player_ids, i - 1)

RECURSIVE InjuriesOf(_, _, _)
InjuriesOf(players, player_ids, i) ==
    IF i = 0 THEN <<>>
    ELSE IF Listed(players[i], player_ids)
    THEN Only({DictPut(d, players[i].id, InjuryStatus(players[i])) :
               d \in {InjuriesOf(players, player_ids, i - 1)}})
    ELSE InjuriesOf(players, player_ids, i - 1)

get_injury_updates(st, player_ids, k) ==
    Only({IF b.err # "none" THEN b
          ELSE Ret(b.st, InjuriesOf(Get(b.val, "elements", <<>>), player_ids,
                                    Len(Get(b.val, "elements", <<>>)))) :
          b \in {fetch_fpl_bootstrap_data(st, k)}})

-----------------------------------------------------------------------------
(* get_ownership_stats *)

Ownership(player) ==
    [selected_by_percent |-> Float(player.selected_by_percent),
     transfers_in_event |-> Get(player, "transfers_in_event", 0),
     transfers_out_event |-> Get(player, "transfers_out_event", 0),
     cost_change_event |-> Get(player, "cost_change_event", 0)]

RECURSIVE OwnershipOf(_, _, _)
OwnershipOf(players, player_ids, i) ==
    IF i = 0 THEN <<>>
    ELSE IF Listed(players[i], player_ids)
    THEN Only({DictPut(d, players[i].id, Ownership(players[i])) :
               d \in {OwnershipOf(players, player_ids, i - 1)}})
    ELSE OwnershipOf(players, player_ids, i - 1)

get_ownership_stats(st, player_ids, k) ==
    Only({IF b.err # "none" THEN b
          ELSE Ret(b.st, OwnershipOf(Get(b.val, "elements", <<>>), player_ids,
                                     Len(Get(b.val, "elements", <<>>)))) :
          b \in {fetch_fpl_bootstrap_data(st, k)}})

-----------------------------------------------------------------------------
(* get_team_fixture_difficulty *)

RECURSIVE DifficultiesOf(_, _, _)
DifficultiesOf(fixtures, team_id, i) ==
    IF i > Len(fixtures) THEN <<>>
    ELSE (IF fixtures[i].team_h = team_id THEN <<fixtures[i].team_h_difficulty>>
          ELSE IF fixtures[i].team_a = team_id THEN <<fixtures[i].team_a_difficulty>>
          ELSE <<>>) \o DifficultiesOf(fixtures, team_id, i + 1)

DefaultGameweeks == 3

get_team_fixture_difficulty(st, team_id, gameweeks, k) ==
    Only({IF f.err # "none" THEN f
          ELSE Only({IF b.err # "none" THEN b
                     ELSE Ret(b.st, DifficultiesOf(f.val, team_id, 1)) :
                     b \in {fetch_fpl_bootstrap_data(f.st, k)}}) :
          f \in {get_upcoming_fixtures(st, gameweeks, k)}})

-----------------------------------------------------------------------------
(* The model's response text: a sequence of tokens.  "1" is a number literal, *)
(* a token ending in ":" is a quoted key with its colon, " " is white space,  *)
(* "[" "]" "{" "}" "," are JSON punctuation, any other token is prose that   *)
(* is no JSON.                                                               *)

KeyTokens == {"recommendations:", "error:", "general_advice:"}

JsonFail == [ok |-> FALSE, val |-> None, next |-> 0]
JsonOk(t, items, next) == [ok |-> TRUE, val |-> [t |-> t, items |-> items], next |-> next]

RECURSIVE SkipWs(_, _)
SkipWs(s, i) == IF i <= Len(s) /\ s[i] = " " THEN SkipWs(s, i + 1) ELSE i

Is(s, i, tok) == i <= Len(s) /\ s[i] = tok

RECURSIVE ParseValue(_, _)
RECURSIVE ParseItems(_, _, _)
RECURSIVE ParseMembers(_, _, _)

\* The elements of an array from position j on: a value, then "," and more
\* elements, or the closing "]"
ParseItems(s, j, acc) ==
    Only({IF ~r.ok THEN JsonFail
          ELSE IF Is(s, SkipWs(s, r.next), ",")
          THEN ParseItems(s, SkipWs(s, r.next) + 1, Append(acc, r.val))
          ELSE IF Is(s, SkipWs(s, r.next), "]")
          THEN JsonOk("array", Append(acc, r.val), SkipWs(s, r.next) + 1)
          ELSE JsonFail :
          r \in {ParseValue(s, j)}})

\* The members of an object from the key at position j on; a key that comes
\* again keeps its place and takes the later value, as in a Python dict
ParseMembers(s, j, acc) ==
    IF ~(j <= Len(s) /\ s[j] \in KeyTokens) THEN JsonFail
    ELSE Only({IF ~r.ok THEN JsonFail
               ELSE IF Is(s, SkipWs(s, r.next), ",")
               THEN ParseMembers(s, SkipWs(s, SkipWs(s, r.next) + 1),
                                 DictPut(acc, s[j], r.val))
               ELSE IF Is(s, SkipWs(s, r.next), "}")
               THEN JsonOk("object", DictPut(acc, s[j], r.val), SkipWs(s, r.next) + 1)
               ELSE JsonFail :
               r \in {ParseValue(s, j + 1)}})

ParseAt(s, i, j) ==
    IF i > Len(s) THEN JsonFail
    ELSE IF s[i] = "1" THEN JsonOk("number", <<>>, i + 1)
    ELSE IF s[i] = "[" THEN
         IF Is(s, j, "]") THEN JsonOk("array", <<>>, j + 1)
         ELSE ParseItems(s, j, <<>>)
    ELSE IF s[i] = "{" THEN
         IF Is(s, j, "}") THEN JsonOk("object", <<>>, j + 1)
         ELSE ParseMembers(s, j, <<>>)
    ELSE JsonFail

ParseValue(s, i0) == ParseAt(s, SkipWs(s, i0), SkipWs(s, SkipWs(s, i0) + 1))

\* json.loads(text): Some(value), or None for json.JSONDecodeError
json_loads(s) ==
    Only({IF r.ok /\ SkipWs(s, r.next) = Len(s) + 1 THEN Some(r.val) ELSE None :
          r \in {ParseValue(s, 1)}})

\* re.search(r'\{.*\}', text, re.DOTALL): greedy, from the first '{' to the last '}'
Braces(s, tok) == {i \in DOMAIN s : s[i] = tok}

\* the non-greedy r'\{.*?\}': from the first '{' to the first '}' after it
json_match_lazy(s) ==
    IF Braces(s, "{") # {} /\ \E j \in Braces(s, "}") : j > First(Braces(s, "{"))
    THEN Some(SubSeq(s, First(Braces(s, "{")),
                     First({j \in Braces(s, "}") : j > First(Braces(s, "{"))})))
    ELSE None

json_match(s) ==
    IF Braces(s, "{") # {} /\ \E j \in Braces(s, "}") : j > First(Braces(s, "{"))
    THEN Some(SubSeq(s, First(Braces(s, "{")), Last(Braces(s, "}"))))
    ELSE None

-----------------------------------------------------------------------------
(* format_captain_prompt: the fixed template with its five slots filled *)

format_captain_prompt(context) ==
    [template |-> "prompt_template",
     current_gameweek |-> context.current_gameweek,
     player_details |-> context.player_details,
     fixture_analysis |-> context.fixture_analysis,
     injury_news |-> context.injury_news,
     ownership_info |-> context.ownership_info]

-----------------------------------------------------------------------------
(* get_captain_recommendations *)

\* next((p for p in picks if p['element'] == player_id), {})
PickOf(picks, player_id) ==
    LET hits == {i \in DOMAIN picks : picks[i].element = player_id}
    IN IF hits = {} THEN [x \in {} |-> 0] ELSE picks[First(hits)]

\* pick_data.get('multiplier', 1) >= 1
CaptainEligibleAll(pick_data) == TRUE
CaptainEligible(pick_data) == Get(pick_data, "multiplier", 1) >= 1

\* next((team['id'] for team in teams if team['name'] == name), 0)
TeamIdByName(teams, name) ==
    LET hits == {i \in DOMAIN teams : teams[i].name = name}
    IN IF hits = {} THEN 0 ELSE teams[First(hits)].id

PlayerDetail(player, fixture_difficulties, status) ==
    [name |-> player.name, team |-> player.team, position |-> player.position,
     price |-> player.price, total_points |-> player.total_points,
     form |-> player.form, points_per_game |-> player.points_per_game,
     goals_scored |-> player.goals_scored, assists |-> player.assists,
     selected_by_percent |-> player.selected_by_percent,
     minutes |-> player.minutes,
     fixture_difficulties |-> fixture_difficulties,
     status |-> status]

\* self.fetch_fpl_bootstrap_data()['teams'], then the team's difficulties
DifficultiesFor(st, player, k) ==
    Only({IF b.err # "none" THEN b
          ELSE IF "teams" \notin DOMAIN b.val THEN Raise(b.st, "KeyError: 'teams'")
          ELSE get_team_fixture_difficulty(b.st, TeamIdByName(b.val.teams, player.team),
                                           DefaultGameweeks, k) :
          b \in {fetch_fpl_bootstrap_data(st, k)}})

\* injury_news.get(player_id, 'Available')
StatusOf(injury_news, player_id) ==
    IF player_id \in KeySet(injury_news) THEN Lookup(injury_news, player_id)
    ELSE <<"Available">>

\* The loop over player_stats.items(): a sequence of [pid, text], one per
\* eligible player, in the order of player_stats
RECURSIVE DetailsFrom(_, _, _, _, _, _)
DetailsFrom(st, player_stats, picks, injury_news, i, k) ==
    IF i > Len(player_stats) THEN Ret(st, <<>>)
    ELSE IF ~CaptainEligible(PickOf(picks, player_stats[i][1]))
    THEN DetailsFrom(st, player_stats, picks, injury_news, i + 1, k)
    ELSE Only({IF d.err # "none" THEN d
               ELSE Only({IF rest.err # "none" THEN rest
                          ELSE Ret(rest.st,
                                   <<[pid |-> player_stats[i][1],
                                      text |-> PlayerDetail(player_stats[i][2], d.val,
                                                  StatusOf(injury_news,
                                                           player_stats[i][1]))]>>
                                   \o rest.val) :
                          rest \in {DetailsFrom(d.st, player_stats, picks,
                                                injury_news, i + 1, k)}}) :
               d \in {DifficultiesFor(st, player_stats[i][2], k)}})

FixtureDigestLimit == 15

\* teams_lookup.get(team, 'UNK')
ShortName(teams_lookup, team) ==
    IF team \in KeySet(teams_lookup) THEN Lookup(teams_lookup, team) ELSE "UNK"

FixtureLine(fixture, teams_lookup) ==
    [gameweek |-> fixture.gameweek,
     home_team |-> ShortName(teams_lookup, fixture.team_h),
     away_team |-> ShortName(teams_lookup, fixture.team_a),
     team_h_difficulty |-> fixture.team_h_difficulty,
     team_a_difficulty |-> fixture.team_a_difficulty]

\* fixtures[:]
HeadAll(fixtures) == fixtures

\* fixtures[:15]
Head15(fixtures) ==
    SubSeq(fixtures, 1, IF Len(fixtures) < FixtureDigestLimit
                        THEN Len(fixtures) ELSE FixtureDigestLimit)

FixtureAnalysis(fixtures, teams_lookup) ==
    [i \in DOMAIN Head15(fixtures) |-> FixtureLine(fixtures[i], teams_lookup)]

InjuryLines(player_stats, injury_news) ==
    Only({[i \in DOMAIN kept |->
              [name |-> Lookup(player_stats, kept[i][1]).name, status |-> kept[i][2]]] :
          kept \in {SelectIdx(injury_news,
                       {i \in DOMAIN injury_news : injury_news[i][2] # <<"Available">>},
                       1)}})

OwnershipLines(player_stats, ownership_data) ==
    [i \in DOMAIN ownership_data |->
        [name |-> Lookup(player_stats, ownership_data[i][1]).name,
         selected_by_percent |-> ownership_data[i][2].selected_by_percent,
         transfers_in_event |-> ownership_data[i][2].transfers_in_event,
         transfers_out_event |-> ownership_data[i][2].transfers_out_event]]

\* The recommendation's result shapes
\* a parser that accepts an object with exactly three recommendations only
ParsedIfThree(value) ==
    IF /\ value.t = "object"
       /\ "recommendations:" \in KeySet(value.items)
       /\ Len(Lookup(value.items, "recommendations:").items) = 3
    THEN [shape |-> "json", json |-> value]
    ELSE [shape |-> "parse_error", error |-> "Failed to parse LLM response",
          raw_response |-> <<>>]
Parsed(value) == [shape |-> "json", json |-> value]
\* an error result that drops the model's text
ParseErrorNoText(text) == [shape |-> "parse_error",
                           error |-> "Failed to parse LLM response",
                           raw_response |-> <<>>]
ParseError(text) == [shape |-> "parse_error",
                     error |-> "Failed to parse LLM response",
                     raw_response |-> text]
ErrorResult(err, team_id) == [shape |-> "error",
                              error |-> <<"Error getting recommendations: ", err>>,
                              team_id |-> team_id]

\* What get_captain_recommendations hands back, with what it built on the way
Outcome(st, val, prompt, eligible) ==
    [st |-> st, err |-> "none", val |-> val, prompt |-> prompt, eligible |-> eligible]
\* a failure that leaves get_captain_recommendations as an exception
Uncontained(r, team_id) ==
    [st |-> r.st, err |-> r.err, val |-> None, prompt |-> None, eligible |-> <<>>]
Contained(r, team_id) ==
    Outcome(r.st, ErrorResult(r.err, team_id), None, <<>>)

\* a model call that is tried a second time when it fails
InvokeAndParseRetry(st, team_id, prompt, eligible, llm_ok, response) ==
    Outcome([st EXCEPT !.llm = IF llm_ok THEN @ + 1 ELSE @ + 2],
            ErrorResult("llm.invoke failed", team_id), Some(prompt), eligible)

\* llm.invoke(prompt) and the parsing of its text
InvokeAndParse(st, team_id, prompt, eligible, llm_ok, response) ==
    LET st1 == [st EXCEPT !.llm = @ + 1] IN
    IF ~llm_ok THEN Outcome(st1, ErrorResult("llm.invoke failed", team_id),
                            Some(prompt), eligible)
    ELSE IF json_loads(response) # None
    THEN Outcome(st1, Parsed(json_loads(response)[1]), Some(prompt), eligible)
    ELSE IF json_match(response) = None
    THEN Outcome(st1, ParseError(response), Some(prompt), eligible)
    ELSE IF json_loads(json_match(response)[1]) # None
    THEN Outcome(st1, Parsed(json_loads(json_match(response)[1])[1]),
                 Some(prompt), eligible)
    ELSE Outcome(st1, ErrorResult("JSONDecodeError", team_id), Some(prompt), eligible)

\* [player_id for the picks]: pick['element'] for pick in team_data['picks']
\* a variant that lists the starting picks only
PlayerIdsOfStarters(picks) ==
    Only({[i \in DOMAIN kept |-> kept[i].element] :
          kept \in {SelectIdx(picks, {i \in DOMAIN picks : CaptainEligible(picks[i])}, 1)}})

PlayerIdsOf(picks) == [i \in DOMAIN picks |-> picks[i].element]

\* Lines 370-388: the context, the prompt and the model's answer
WithCatalog(team_id, gw, stats, injury, own, fix, details, b, llm_ok, response) ==
    IF b.err # "none" THEN Contained(b, team_id)
    ELSE IF "teams" \notin DOMAIN b.val
    THEN Contained(Raise(b.st, "KeyError: 'teams'"), team_id)
    ELSE InvokeAndParse(b.st, team_id,
             format_captain_prompt(
                 [current_gameweek |-> gw.val,
                  player_details |-> [i \in DOMAIN details.val |-> details.val[i].text],
                  fixture_analysis |->
                      FixtureAnalysis(fix.val,
                          DictFrom(b.val.teams, "short_name", Len(b.val.teams))),
                  injury_news |-> InjuryLines(stats.val, injury.val),
                  ownership_info |-> OwnershipLines(stats.val, own.val)]),
             [i \in DOMAIN details.val |-> details.val[i].pid],
             llm_ok, response)

\* Lines 357-360: bootstrap_data = self.fetch_fpl_bootstrap_data()
WithDetails(team_id, gw, stats, injury, own, fix, details, k, llm_ok, response) ==
    IF details.err # "none" THEN Contained(details, team_id)
    ELSE Only({WithCatalog(team_id, gw, stats, injury, own, fix, details, b,
                           llm_ok, response) :
               b \in {fetch_fpl_bootstrap_data(details.st, k)}})

\* Lines 335-383, once every fetch has succeeded
WithFixtures(team_id, picks, gw, stats, injury, own, fix, k, llm_ok, response) ==
    IF fix.err # "none" THEN Contained(fix, team_id)
    ELSE Only({WithDetails(team_id, gw, stats, injury, own, fix, details,
                           k, llm_ok, response) :
               details \in {DetailsFrom(fix.st, stats.val, picks, injury.val, 1, k)}})

\* Line 333: fixtures = self.get_upcoming_fixtures()
WithOwnership(team_id, picks, gw, stats, injury, own, k, llm_ok, response) ==
    IF own.err # "none" THEN Contained(own, team_id)
    ELSE Only({WithFixtures(team_id, picks, gw, stats, injury, own, fix,
                            k, llm_ok, response) :
               fix \in {get_upcoming_fixtures(own.st, DefaultGameweeks, k)}})

\* Line 332: ownership_data = self.get_ownership_stats(player_ids)
WithInjuries(team_id, picks, gw, stats, injury, k, llm_ok, response) ==
    IF injury.err # "none" THEN Contained(injury, team_id)
    ELSE Only({WithOwnership(team_id, picks, gw, stats, injury, own,
                             k, llm_ok, response) :
               own \in {get_ownership_stats(injury.st, PlayerIdsOf(picks), k)}})

\* Line 331: injury_news = self.get_injury_updates(player_ids)
WithStats(team_id, picks, gw, stats, k, llm_ok, response) ==
    IF stats.err # "none" THEN Contained(stats, team_id)
    ELSE Only({WithInjuries(team_id, picks, gw, stats, injury, k, llm_ok, response) :
               injury \in {get_injury_updates(stats.st, PlayerIdsOf(picks), k)}})

\* Lines 325-330: player_ids and player_stats
WithGameweek(team_id, picks, gw, k, llm_ok, response) ==
    IF gw.err # "none" THEN Contained(gw, team_id)
    ELSE Only({WithStats(team_id, picks, gw, stats, k, llm_ok, response) :
               stats \in {get_player_performance_data(gw.st, PlayerIdsOf(picks), k)}})

\* Line 322: current_gw = self.get_current_gameweek()
WithTeam(team_id, team, k, llm_ok, response) ==
    IF team.err # "none" THEN Contained(team, team_id)
    ELSE Only({WithGameweek(team_id, team.val.picks, gw, k, llm_ok, response) :
               gw \in {get_current_gameweek(team.st, k)}})

get_captain_recommendations(st, team_id, k, llm_ok, response) ==
    Only({WithTeam(team_id, team, k, llm_ok, response) :
          team \in {fetch_fpl_team_data(st, team_id, k)}})

-----------------------------------------------------------------------------
(* Upstream data the model draws its snapshots from *)

TeamIds == {1, 2}               \* manager (entry) ids
Windows == 0..MaxWindow         \* the gameweeks argument
\* k: the requests that succeed before one fails; with k = Len(reqs), the
\* requests the operation issues when none fails, every request succeeds
Failures(r) == 0..Len(r.st.reqs)
GwIds == 1..MaxGW
PlayerIds == 1..(MaxPlayers + 1)

\* id allow-lists, ascending: membership is all the code asks of them
AllowLists == {ids \in SeqsUpTo(PlayerIds, MaxPlayers) :
                  \A i \in DOMAIN ids : \A j \in DOMAIN ids : i < j => ids[i] < ids[j]}

Event(id, cur, nxt) == [id |-> id, is_current |-> cur, is_next |-> nxt]

\* gameweek lists: ids ascending as upstream lists them, any flags
Ascending(ids) == \A i \in DOMAIN ids : \A j \in DOMAIN ids : i < j => ids[i] < ids[j]
EventLists ==
    UNION {{[i \in DOMAIN ids |-> Event(ids[i], cur[i], nxt[i])] :
               cur \in [DOMAIN ids -> BOOLEAN], nxt \in [DOMAIN ids -> BOOLEAN]} :
           ids \in {s \in SeqsUpTo(GwIds, MaxEvents) : Ascending(s)}}

Team(id, name, short) == [id |-> id, name |-> name, short_name |-> short]
TeamsTable == <<Team(1, "Arsenal", "ARS"), Team(2, "Chelsea", "CHE")>>
PositionsTable == <<[id |-> 1, singular_name |-> "Forward"]>>

FormOf(id) == IF id % 2 = 1 THEN <<"7", ".", "5">> ELSE <<"0", ".", "0">>

\* a raw catalog element; team 9 and element_type 9 are in no lookup table
Element(id, team, etype, chance, news) ==
    [id |-> id, first_name |-> "F", second_name |-> IF id = 1 THEN "One"
                                                    ELSE IF id = 2 THEN "Two"
                                                    ELSE IF id = 3 THEN "Three"
                                                    ELSE "Other",
     team |-> team, element_type |-> etype,
     now_cost |-> 50 + id, total_points |-> 10 * id,
     form |-> FormOf(id), points_per_game |-> FormOf(id + 1),
     selected_by_percent |-> FormOf(id),
     goals_scored |-> id, assists |-> 0, clean_sheets |-> 0, minutes |-> 90 * id,
     bonus |-> 0, chance_of_playing_next_round |-> chance, news |-> news,
     transfers_in_event |-> id, transfers_out_event |-> 0]

Distinct(s) == \A i \in DOMAIN s : \A j \in DOMAIN s : i # j => s[i] # s[j]
DistinctIds(rows) == Distinct([i \in DOMAIN rows |-> rows[i].id])

Payload(events, elements) ==
    [events |-> events, elements |-> elements, teams |-> TeamsTable,
     element_types |-> PositionsTable]
EmptyPayload == [x \in {} |-> <<>>]
NoEventsPayload == [elements |-> <<>>, teams |-> TeamsTable,
                    element_types |-> PositionsTable]
NoTeamsPayload == [events |-> <<Event(1, TRUE, FALSE)>>,
                   elements |-> <<Element(1, 1, 1, None, "")>>]

Fixture(event, finished, h, a) ==
    [event |-> event, finished |-> finished, team_h |-> h, team_a |-> a,
     team_h_difficulty |-> 2, team_a_difficulty |-> 4,
     kickoff_time |-> "2025-08-16T11:30:00Z"]

Pick(element, multiplier) == [element |-> element, multiplier |-> multiplier]
PicksPayload(picks) == [picks |-> picks, active_chip |-> None, automatic_subs |-> <<>>]

Reverse(s) == [i \in DOMAIN s |-> s[Len(s) + 1 - i]]

\* The model's answers
Responses ==
    {<<"{", "recommendations:", "[", "]", "}">>,
     <<"a", "{", "}", "a">>,
     <<"a">>,
     <<"[", "1", "]">>,
     <<"{", "a", "}">>}

AnyResponse == <<"a">>

\* The ways one recommendation can go, given the run r in which nothing fails:
\* a request fails (the model is never reached), or every request succeeds and
\* the model fails or answers
RunsOver(r, texts) ==
    {[k |-> k, llm_ok |-> TRUE, response |-> AnyResponse] : k \in 0..(Len(r.st.reqs) - 1)}
    \cup {[k |-> Len(r.st.reqs), llm_ok |-> FALSE, response |-> AnyResponse]}
    \cup {[k |-> Len(r.st.reqs), llm_ok |-> TRUE, response |-> text] : text \in texts}
Runs(r) == RunsOver(r, Responses)

-----------------------------------------------------------------------------
(* The state machine *)

NoHist == [first_fixtures |-> None, first_bootstrap |-> None,
           team_fetches |-> [t \in TeamIds |-> 0]]

Idle == [op |-> "none", arg |-> 0, reqs |-> <<>>, err |-> "none",
         val |-> None, llm |-> 0]

\* The state after a successful construction
Fresh ==
    /\ alive = TRUE
    /\ bootstrap_cache = None
    /\ fixtures_cache = None
    /\ teams_cache = None
    /\ last = Idle
    /\ hist = [inst |-> NoHist, first_prompt |-> [t \in TeamIds |-> None]]

Upstream == <<catalog, fixtures_data, picks_data>>

Done(op, arg, r) ==
    [op |-> op, arg |-> arg, reqs |-> r.st.reqs, err |-> r.err, val |-> r.val,
     llm |-> r.st.llm]

\* failed: a request of the operation got no success response, which is the
\* case when it issued more requests than the k that succeed
HttpFailed(r, k) == Len(r.st.reqs) > k

\* the two operations that keep their result on the instance
CachedOps == {"fetch_fpl_bootstrap_data", "get_upcoming_fixtures"}

\* how the call before this one ended, when it was a call of the same cached
\* operation on the same instance: "failed" (a request of it failed), "empty"
\* (it returned an empty payload or an empty list), else "other"
Before(op) ==
    IF last.op # op \/ op \notin CachedOps THEN "other"
    ELSE IF last.failed THEN "failed"
    ELSE IF last.err = "none" /\ last.val = <<>> THEN "empty"
    ELSE "other"

DoneAt(op, arg, r, k) ==
    [op |-> op, arg |-> arg, reqs |-> r.st.reqs, err |-> r.err, val |-> r.val,
     llm |-> r.st.llm, failed |-> HttpFailed(r, k), before |-> Before(op)]

\* api_key = openai_api_key or os.getenv('OPENAI_API_KEY'): None and the empty
\* string are falsy
Credentials == {None, Some(""), Some("sk")}
TruthyStr(c) == c # None /\ c[1] # ""
ApiKeyAlways(openai_api_key, env_key) == Some("sk")
ApiKey(openai_api_key, env_key) ==
    IF TruthyStr(openai_api_key) THEN openai_api_key ELSE env_key

\* __init__: without a credential it raises before it builds anything
Construct ==
    \E openai_api_key \in Credentials, env_key \in Credentials :
        /\ IF TruthyStr(ApiKey(openai_api_key, env_key))
           THEN /\ alive' = TRUE
                /\ bootstrap_cache' = None
                /\ fixtures_cache' = None
                /\ teams_cache' = None
                /\ hist' = [hist EXCEPT !.inst = NoHist]
                /\ last' = [op |-> "__init__", arg |-> <<openai_api_key, env_key>>,
                            reqs |-> <<>>, err |-> "none", val |-> None, llm |-> 0]
           ELSE /\ UNCHANGED <<alive, bootstrap_cache, fixtures_cache, teams_cache, hist>>
                /\ last' = [op |-> "__init__", arg |-> <<openai_api_key, env_key>>,
                            reqs |-> <<>>, err |-> "ValueError", val |-> None,
                            llm |-> 0]
        /\ UNCHANGED Upstream

Caches(r) ==
    /\ bootstrap_cache' = r.st.bc
    /\ fixtures_cache' = r.st.fc
    /\ teams_cache' = r.st.tc

Now == St(bootstrap_cache, fixtures_cache, teams_cache)

FetchBootstrap ==
    /\ alive
    /\ \E k \in Failures(fetch_fpl_bootstrap_data(Now, MaxReq)) :
        \E r \in {fetch_fpl_bootstrap_data(Now, k)} :
        /\ Caches(r)
        /\ last' = DoneAt("fetch_fpl_bootstrap_data", 0, r, k)
        /\ hist' = [hist EXCEPT !.inst.first_bootstrap =
                        IF @ = None /\ r.err = "none" THEN Some(r.val) ELSE @]
    /\ UNCHANGED <<alive, Upstream>>

GetCurrentGameweek ==
    /\ alive
    /\ \E k \in Failures(get_current_gameweek(Now, MaxReq)) :
        \E r \in {get_current_gameweek(Now, k)} :
        /\ Caches(r)
        /\ last' = DoneAt("get_current_gameweek", 0, r, k)
    /\ UNCHANGED <<alive, hist, Upstream>>

GetUpcomingFixtures ==
    /\ alive
    /\ \E gameweeks \in Windows :
      \E k \in Failures(get_upcoming_fixtures(Now, gameweeks, MaxReq)) :
        \E r \in {get_upcoming_fixtures(Now, gameweeks, k)} :
        /\ Caches(r)
        /\ last' = DoneAt("get_upcoming_fixtures", gameweeks, r, k)
        /\ hist' = [hist EXCEPT !.inst.first_fixtures =
                        IF @ = None /\ r.err = "none" THEN Some(r.val) ELSE @]
    /\ UNCHANGED <<alive, Upstream>>

FetchTeamData ==
    /\ alive
    /\ \E team_id \in TeamIds :
      \E k \in Failures(fetch_fpl_team_data(Now, team_id, MaxReq)) :
        \E r \in {fetch_fpl_team_data(Now, team_id, k)} :
        /\ Caches(r)
        /\ last' = DoneAt("fetch_fpl_team_data", team_id, r, k)
        /\ hist' = [hist EXCEPT !.inst.team_fetches[team_id] =
                        IF r.err = "none" /\ @ < 2 THEN @ + 1 ELSE @]
    /\ UNCHANGED <<alive, Upstream>>

GetPlayerPerformanceData ==
    /\ alive
    /\ \E player_ids \in AllowLists :
      \E k \in Failures(get_player_performance_data(Now, player_ids, MaxReq)) :
        \E r \in {get_player_performance_data(Now, player_ids, k)} :
        /\ Caches(r)
        /\ last' = DoneAt("get_player_performance_data", player_ids, r, k)
    /\ UNCHANGED <<alive, hist, Upstream>>

GetInjuryUpdates ==
    /\ alive
    /\ \E player_ids \in AllowLists :
      \E k \in Failures(get_injury_updates(Now, player_ids, MaxReq)) :
        \E r \in {get_injury_updates(Now, player_ids, k)} :
        /\ Caches(r)
        /\ last' = DoneAt("get_injury_updates", player_ids, r, k)
    /\ UNCHANGED <<alive, hist, Upstream>>

GetOwnershipStats ==
    /\ alive
    /\ \E player_ids \in AllowLists :
      \E k \in Failures(get_ownership_stats(Now, player_ids, MaxReq)) :
        \E r \in {get_ownership_stats(Now, player_ids, k)} :
        /\ Caches(r)
        /\ last' = DoneAt("get_ownership_stats", player_ids, r, k)
    /\ UNCHANGED <<alive, hist, Upstream>>

\* what the instance holds when an operation starts: nothing yet ("fresh"),
\* a catalog and a fixture list it will be served from ("populated"), or
\* anything else
CachesAtStart ==
    IF bootstrap_cache = None /\ fixtures_cache = None THEN "fresh"
    ELSE IF BootstrapCacheHit(Now) /\ FixturesCacheHit(Now) THEN "populated"
    ELSE "other"

\* One recommendation, the model answering with one of texts
Recommend(texts) ==
    /\ alive
    /\ \E team_id \in TeamIds :
      \E run \in RunsOver(get_captain_recommendations(Now, team_id, MaxReq,
                                                       TRUE, AnyResponse), texts) :
        \E r \in {get_captain_recommendations(Now, team_id, run.k, run.llm_ok,
                                             run.response)} :
        /\ Caches(r)
        /\ last' = [op |-> "get_captain_recommendations", arg |-> team_id,
                    reqs |-> r.st.reqs, err |-> r.err, val |-> r.val,
                    llm |-> r.st.llm, prompt |-> r.prompt, eligible |-> r.eligible,
                    failed |-> HttpFailed(r, run.k), llm_ok |-> run.llm_ok,
                    response |-> run.response, start |-> CachesAtStart]
        /\ hist' = [hist EXCEPT !.first_prompt[team_id] =
                        IF @ = None THEN r.prompt ELSE @]
    /\ UNCHANGED <<alive, Upstream>>

GetCaptainRecommendations == Recommend(Responses)

-----------------------------------------------------------------------------
(* Specifications.  Each draws the upstream snapshot from the pool that makes *)
(* the cases of its claims happen.                                           *)

NoPicks == [t \in TeamIds |-> PicksPayload(<<>>)]
OneCurrent(g) == <<Event(g, TRUE, FALSE), Event(g + 1, FALSE, TRUE)>>

\* Gameweek resolution: every flag pattern, a payload without events, an empty one
CatalogsGW == {Payload(ev, <<>>) : ev \in EventLists} \cup {EmptyPayload, NoEventsPayload}

InitGW ==
    /\ Fresh
    /\ catalog \in CatalogsGW
    /\ fixtures_data = <<>>
    /\ picks_data = NoPicks

NextGW == FetchBootstrap \/ GetCurrentGameweek

SpecGW == InitGW /\ [][NextGW]_vars

\* Fixture filtering: every fixtures list, current gameweek 1 or 2
FixturePool == {Fixture(e, fin, 1, 2) : e \in 0..MaxGW, fin \in BOOLEAN}
CatalogsFix == {Payload(OneCurrent(g), <<>>) : g \in 1..2}

InitFix ==
    /\ Fresh
    /\ catalog \in CatalogsFix
    /\ fixtures_data \in SeqsUpTo(FixturePool, MaxFixtures)
    /\ picks_data = NoPicks

NextFix == GetUpcomingFixtures

SpecFix == InitFix /\ [][NextFix]_vars

\* Record mapping: every elements list with distinct ids
ElementPool ==
    {Element(id, ids[1], ids[2], None, "") :
        id \in PlayerIds, ids \in {<<1, 1>>, <<9, 1>>, <<2, 9>>}}
ElementLists == {els \in SeqsUpTo(ElementPool, MaxPlayers) : DistinctIds(els)}

InitMap ==
    /\ Fresh
    /\ catalog \in {Payload(OneCurrent(1), els) : els \in ElementLists}
    /\ fixtures_data = <<>>
    /\ picks_data = NoPicks

NextMap == GetPlayerPerformanceData

SpecMap == InitMap /\ [][NextMap]_vars

-----------------------------------------------------------------------------
(* Properties of gameweek resolution (SpecGW) *)

EventsOf(payload) == Get(payload, "events", <<>>)
CurrentEntries == {i \in DOMAIN EventsOf(catalog) : EventsOf(catalog)[i].is_current}
NextEntries == {i \in DOMAIN EventsOf(catalog) : EventsOf(catalog)[i].is_next}
Resolved == last.op = "get_current_gameweek" /\ last.err = "none"

\* C1: when exactly one entry of the events list is flagged is_current,
\* get_current_gameweek returns that entry's id, whatever is flagged is_next
\* and wherever it sits.
C1_SingleCurrentWins ==
    (Resolved /\ Cardinality(CurrentEntries) = 1)
        => \A i \in CurrentEntries : last.val = EventsOf(catalog)[i].id

\* An is_next entry sits before the one is_current entry, whose id is returned
C1_Witness ==
    /\ Resolved
    /\ Cardinality(CurrentEntries) = 1
    /\ \E i \in CurrentEntries : \E j \in NextEntries :
          j < i /\ last.val = EventsOf(catalog)[i].id
                /\ last.val # EventsOf(catalog)[j].id

\* C2: with no is_current entry and one is_next entry the result is the
\* is_next entry's id; with no flag at all (also an empty or missing events
\* list) the result is 1.
C2_NextThenDefault ==
    (Resolved /\ CurrentEntries = {})
        => /\ Cardinality(NextEntries) = 1
                => \A j \in NextEntries : last.val = EventsOf(catalog)[j].id
           /\ NextEntries = {} => last.val = 1

\* No is_current entry, one is_next entry that is not gameweek 1 and not first
C2_Witness ==
    /\ Resolved
    /\ CurrentEntries = {}
    /\ Cardinality(NextEntries) = 1
    /\ \E j \in NextEntries : j > 1 /\ last.val = EventsOf(catalog)[j].id /\ last.val # 1

-----------------------------------------------------------------------------
(* Properties of fixture filtering (SpecFix) *)

\* the id of the catalog's is_current entry (every catalog of SpecFix has one)
CurrentGW == EventsOf(catalog)[CHOOSE i \in CurrentEntries : TRUE].id

Wanted(windowSize) ==
    {i \in DOMAIN fixtures_data :
        /\ CurrentGW <= fixtures_data[i].event
        /\ fixtures_data[i].event <= CurrentGW + windowSize - 1
        /\ fixtures_data[i].finished = FALSE}

\* the n-th smallest member of a set of indices
Nth(I, n) == CHOOSE i \in I : Cardinality({j \in I : j < i}) = n - 1

Fetched == last.op = "get_upcoming_fixtures" /\ last.err = "none" /\ last.reqs # <<>>

\* C3: a get_upcoming_fixtures(windowSize) that is not served from the cache
\* returns, in upstream order, exactly the fetched fixtures that are not
\* finished and whose gameweek lies in currentGW .. currentGW + windowSize - 1.
C3_ExactWindow ==
    Fetched =>
        /\ Len(last.val) = Cardinality(Wanted(last.arg))
        /\ \A n \in DOMAIN last.val :
              LET f == fixtures_data[Nth(Wanted(last.arg), n)] IN
              /\ last.val[n].gameweek = f.event
              /\ last.val[n].team_h = f.team_h
              /\ last.val[n].team_a = f.team_a
              /\ last.val[n].team_h_difficulty = f.team_h_difficulty
              /\ last.val[n].team_a_difficulty = f.team_a_difficulty
              /\ last.val[n].kickoff_time = f.kickoff_time

\* A fixture at currentGW + windowSize - 1 is returned, one at
\* currentGW + windowSize is left out
C3_Witness ==
    /\ Fetched
    /\ last.arg >= 2
    /\ Len(last.val) = 1
    /\ last.val[1].gameweek = CurrentGW + last.arg - 1
    /\ \E i \in DOMAIN fixtures_data :
          fixtures_data[i].event = CurrentGW + last.arg /\ ~fixtures_data[i].finished

-----------------------------------------------------------------------------
(* Properties of the record mapper (SpecMap) *)

Elements == Get(catalog, "elements", <<>>)
ElementWithId(id) == Elements[CHOOSE i \in DOMAIN Elements : Elements[i].id = id]
Mapped == last.op = "get_player_performance_data" /\ last.err = "none"

DigitChars == <<"0", "1", "2", "3", "4", "5", "6", "7", "8", "9">>
\* the numeric string a float came from
Show(f) == <<DigitChars[f.whole + 1], ".", DigitChars[f.frac + 1]>>

\* C7: the keys of the returned mapping are exactly the catalog player ids
\* that are in the allow-list, and each record carries the id and the stats
\* of the catalog entry with that id.
C7_ExactSubset ==
    Mapped =>
        /\ KeySet(last.val) = {Elements[i].id : i \in DOMAIN Elements} \cap Range(last.arg)
        /\ \A n \in DOMAIN last.val :
              LET rec == last.val[n][2]
                  e == ElementWithId(last.val[n][1])
              IN /\ rec.id = e.id
                 /\ rec.name = <<e.first_name, " ", e.second_name>>
                 /\ 10 * rec.price.whole + rec.price.frac = e.now_cost
                 /\ rec.now_cost = e.now_cost
                 /\ rec.total_points = e.total_points
                 /\ Show(rec.form) = e.form
                 /\ Show(rec.points_per_game) = e.points_per_game
                 /\ Show(rec.selected_by_percent) = e.selected_by_percent
                 /\ rec.goals_scored = e.goals_scored
                 /\ rec.assists = e.assists
                 /\ rec.clean_sheets = e.clean_sheets
                 /\ rec.minutes = e.minutes
                 /\ rec.bonus = e.bonus

\* One catalog player is mapped, another is left out, and a listed id is in
\* no catalog entry
C7_Witness ==
    /\ Mapped
    /\ Len(last.val) = 1
    /\ Len(Elements) = 2
    /\ \E id \in Range(last.arg) : \A i \in DOMAIN Elements : Elements[i].id # id

TeamIdsKnown == {Get(catalog, "teams", <<>>)[i].id : i \in DOMAIN Get(catalog, "teams", <<>>)}
PositionIdsKnown ==
    {Get(catalog, "element_types", <<>>)[i].id :
        i \in DOMAIN Get(catalog, "element_types", <<>>)}

\* C8: a listed player whose team id or element_type id is in no lookup table
\* is still mapped, with "Unknown" as its team or position name.
C8_UnknownPlaceholder ==
    Mapped =>
        \A i \in DOMAIN Elements :
            Elements[i].id \in Range(last.arg) =>
                /\ Elements[i].id \in KeySet(last.val)
                /\ Elements[i].team \notin TeamIdsKnown
                      => Lookup(last.val, Elements[i].id).team = "Unknown"
                /\ Elements[i].element_type \notin PositionIdsKnown
                      => Lookup(last.val, Elements[i].id).position = "Unknown"

\* One mapped player has an unknown team, another an unknown position
C8_Witness ==
    /\ Mapped
    /\ \E n \in DOMAIN last.val : \E m \in DOMAIN last.val :
          /\ last.val[n][2].team = "Unknown" /\ last.val[n][2].position # "Unknown"
          /\ last.val[m][2].position = "Unknown" /\ last.val[m][2].team # "Unknown"

-----------------------------------------------------------------------------
(* Specifications of the recommendation flow and of the caches *)

\* the catalog players of the recommendation flow: player 2 carries an injury
\* note, player 3 plays for a team that is in no lookup table
Squad(id) == IF id = 1 THEN Element(1, 1, 1, None, "")
             ELSE IF id = 2 THEN Element(2, 2, 1, Some(75), "Knock")
             ELSE Element(id, 9, 1, Some(100), "")

\* a team's picks, by ascending element; the second manager holds the same
\* squad in reverse order
PickLists ==
    {p \in SeqsUpTo({Pick(e, m) : e \in PlayerIds, m \in 0..2}, MaxPlayers) :
        \A i \in DOMAIN p : \A j \in DOMAIN p : i < j => p[i].element < p[j].element}
PicksFor(p) == [t \in TeamIds |-> PicksPayload(IF t = 1 THEN p ELSE Reverse(p))]

\* with current gameweek 1: one fixture in every window, one only in windows >= 3
TwoFixtures == <<Fixture(1, FALSE, 1, 2), Fixture(3, FALSE, 2, 1)>>

\* Bench exclusion: every pick list against a two-player catalog
InitPicks ==
    /\ Fresh
    /\ catalog \in {Payload(OneCurrent(1), <<Squad(2), Squad(1)>>), NoTeamsPayload}
    /\ fixtures_data = TwoFixtures
    /\ \E p \in PickLists : picks_data = PicksFor(p)

NextPicks == GetCaptainRecommendations

SpecPicks == InitPicks /\ [][NextPicks]_vars

\* Prompt assembly over the life of several instances, upstream unchanged
InitPrompt ==
    /\ Fresh
    /\ catalog \in {Payload(OneCurrent(1), <<Squad(2), Squad(1)>>),
                    Payload(OneCurrent(2), <<Squad(1)>>)}
    /\ fixtures_data \in {TwoFixtures, <<>>}
    /\ picks_data \in {PicksFor(<<Pick(1, 2), Pick(2, 0)>>),
                       PicksFor(<<Pick(1, 1), Pick(2, 1)>>)}

NextPrompt == Construct \/ GetUpcomingFixtures \/ GetCaptainRecommendations

SpecPrompt == InitPrompt /\ [][NextPrompt]_vars

\* The caches over the life of several instances, the upstream catalog changing
CatalogsMain == {Payload(OneCurrent(1), <<Squad(1)>>),
                 Payload(OneCurrent(2), <<Squad(1)>>),
                 EmptyPayload}

\* the sports-data API publishes another catalog
UpstreamChange ==
    /\ catalog' \in CatalogsMain \ {catalog}
    /\ last' = Idle
    /\ hist' = [hist EXCEPT !.first_prompt = [t \in TeamIds |-> None]]
    /\ UNCHANGED <<alive, bootstrap_cache, fixtures_cache, teams_cache,
                   fixtures_data, picks_data>>

Init ==
    /\ Fresh
    /\ catalog \in CatalogsMain
    /\ fixtures_data = TwoFixtures
    /\ picks_data = PicksFor(<<Pick(1, 2)>>)

Next ==
    \/ Construct
    \/ FetchBootstrap
    \/ GetCurrentGameweek
    \/ FetchTeamData
    \/ GetUpcomingFixtures
    \/ UpstreamChange

Spec == Init /\ [][Next]_vars

-----------------------------------------------------------------------------
(* Properties of the caches *)

\* C4: after a first successful get_upcoming_fixtures on an instance, every
\* later get_upcoming_fixtures on that instance, with any windowSize, returns
\* the first call's result and issues no HTTP request.  (SpecFix)
C4_FixturesServedFromCache ==
    [][(hist.inst.first_fixtures # None /\ last'.op = "get_upcoming_fixtures")
          => /\ last'.reqs = <<>>
             /\ last'.err = "none"
             /\ last'.val = hist.inst.first_fixtures[1]]_vars

\* C5: after a first successful fetch_fpl_bootstrap_data on an instance, every
\* later call on that instance, whatever ran in between, returns the same
\* payload and issues no request to /bootstrap-static/.  (Spec)
C5_BootstrapServedFromCache ==
    [][(hist.inst.first_bootstrap # None /\ last'.op = "fetch_fpl_bootstrap_data")
          => /\ BootstrapUrl \notin Range(last'.reqs)
             /\ last'.err = "none"
             /\ last'.val = hist.inst.first_bootstrap[1]]_vars

TeamFetched == last.op = "fetch_fpl_team_data" /\ last.err = "none"
FetchedAgain == TeamFetched /\ hist.inst.team_fetches[last.arg] = 2

\* C6, as stated: a second fetch_fpl_team_data for the same team id on the
\* same instance is served from a cache and issues no HTTP request.  (Spec)
C6_TeamDataServedFromCache == FetchedAgain => last.reqs = <<>>

\* C6, as the code behaves: no call stores anything in _teams_cache, and
\* every fetch_fpl_team_data, the first for a team id or a later one,
\* requests the team info first and, when it succeeds, the team picks of the
\* resolved gameweek last.  (Spec)
C6_TeamDataRefetched ==
    /\ teams_cache = None
    /\ last.op = "fetch_fpl_team_data"
          => /\ last.reqs # <<>>
             /\ last.reqs[1] = EntryUrl(last.arg)
    /\ TeamFetched
          => /\ Len(last.reqs) >= 2
             /\ last.reqs[Len(last.reqs)].ep = "/entry/{id}/event/{gw}/picks/"
             /\ last.reqs[Len(last.reqs)].id = last.arg
             /\ last.val.picks = picks_data[last.arg].picks

\* A team id is fetched a second time on one instance, the catalog already
\* cached: the call issues exactly the two team requests again
C6_Witness ==
    /\ FetchedAgain
    /\ bootstrap_cache # None
    /\ last.reqs = <<EntryUrl(last.arg), PicksUrl(last.arg, 1)>>

-----------------------------------------------------------------------------
(* Properties of the recommendation flow *)

Assembled == last.op = "get_captain_recommendations" /\ last.prompt # None
SquadPicks == picks_data[last.arg].picks
CatalogIds == {Elements[i].id : i \in DOMAIN Elements}

\* C9: player_details of the prompt has an entry for a squad pick exactly
\* when the pick's multiplier is >= 1 and the pick is found in the catalog:
\* every bench pick (multiplier 0) is left out, every starting pick found in
\* the catalog is in, once, under its catalog name.  (SpecPicks)
C9_StartersOnly ==
    Assembled =>
        /\ \A i \in DOMAIN SquadPicks :
              SquadPicks[i].element \in Range(last.eligible)
                  <=> (SquadPicks[i].multiplier >= 1
                       /\ SquadPicks[i].element \in CatalogIds)
        /\ Distinct(last.eligible)
        /\ Len(last.prompt[1].player_details) = Len(last.eligible)
        /\ \A n \in DOMAIN last.eligible :
              LET e == ElementWithId(last.eligible[n])
              IN last.prompt[1].player_details[n].name
                     = <<e.first_name, " ", e.second_name>>

\* A squad of one starting pick and one bench pick, both in the catalog: the
\* prompt lists the starting pick alone
C9_Witness ==
    /\ Assembled
    /\ Len(SquadPicks) = 2
    /\ \E i \in DOMAIN SquadPicks : \E j \in DOMAIN SquadPicks :
          /\ SquadPicks[i].multiplier = 0 /\ SquadPicks[i].element \in CatalogIds
          /\ SquadPicks[j].multiplier >= 1
          /\ last.eligible = <<SquadPicks[j].element>>

\* C10: two runs of the prompt assembly on the same team picks, catalog and
\* fixtures produce the same prompt text, whatever instance runs them and
\* whatever that instance did before.  (SpecPrompt: the upstream never
\* changes, so every prompt for a team equals the first one built for it)
C10_PromptDeterministic ==
    Assembled => last.prompt = hist.first_prompt[last.arg]

-----------------------------------------------------------------------------
(* Parsing of the model's answer *)

\* JSON values, in the representation json_loads produces
Num == [t |-> "number", items |-> <<>>]
Arr(items) == [t |-> "array", items |-> items]
Obj(members) == [t |-> "object", items |-> members]

\* The text of a JSON value: json.dumps with its default separators
RECURSIVE Render(_)
RECURSIVE RenderItems(_, _)
RECURSIVE RenderMembers(_, _)
RenderItems(items, i) ==
    IF i > Len(items) THEN <<>>
    ELSE Render(items[i]) \o (IF i < Len(items) THEN <<",", " ">> ELSE <<>>)
         \o RenderItems(items, i + 1)
RenderMembers(members, i) ==
    IF i > Len(members) THEN <<>>
    ELSE <<members[i][1], " ">> \o Render(members[i][2])
         \o (IF i < Len(members) THEN <<",", " ">> ELSE <<>>)
         \o RenderMembers(members, i + 1)
Render(v) ==
    IF v.t = "number" THEN <<"1">>
    ELSE IF v.t = "array" THEN <<"[">> \o RenderItems(v.items, 1) \o <<"]">>
    ELSE <<"{">> \o RenderMembers(v.items, 1) \o <<"}">>

\* JSON objects: empty, the expected keys with no, three and four (equally
\* ranked) recommendations, an unexpected key holding a nested object
JsonObjects ==
    {Obj(<<>>),
     Obj(<<<<"recommendations:", Arr(<<>>)>>>>),
     Obj(<<<<"recommendations:", Arr(<<Num, Num, Num>>)>>, <<"general_advice:", Num>>>>),
     Obj(<<<<"recommendations:", Arr(<<Num, Num, Num, Num>>)>>>>),
     Obj(<<<<"error:", Obj(<<>>)>>>>)}

\* JSON values that are no object
JsonOthers == {Num, Arr(<<>>), Arr(<<Num, Num>>)}

\* Prose around an object: words, white space and figures, no brace
Prose == {<<>>, <<" ">>, <<"a", " ", "1">>}

\* Text that is no JSON, with and without braces
Garbage ==
    {<<"a">>, <<"}", "{">>, <<"{">>, <<"{", "a", "}">>,
     <<"a", "{", "error:", "}", "a">>, <<"[", "1", ",", "]">>,
     <<"{", "}", "a", "{", "}">>}

Texts ==
    {lead \o Render(J) \o trail : J \in JsonObjects, lead \in Prose, trail \in Prose}
    \cup {Render(v) : v \in JsonOthers}
    \cup Garbage

GetCaptainRecommendationsAnyText == Recommend(Texts)

InitParse ==
    /\ Fresh
    /\ catalog = Payload(OneCurrent(1), <<Squad(1)>>)
    /\ fixtures_data = TwoFixtures
    /\ picks_data = PicksFor(<<Pick(1, 2)>>)

NextParse == GetCaptainRecommendationsAnyText

SpecParse == InitParse /\ [][NextParse]_vars

\* the model was reached and answered
ModelAnswered ==
    /\ last.op = "get_captain_recommendations"
    /\ ~last.failed /\ last.llm_ok /\ last.prompt # None

ParseFailedTwice ==
    /\ json_loads(last.response) = None
    /\ \/ json_match(last.response) = None
       \/ json_loads(json_match(last.response)[1]) = None

\* C12: whenever the whole-body parse and the parse of the extracted
\* substring both fail, the result is the error result that carries the
\* model's raw text, and no other error shape.  (SpecParse)
C12_TerminalFailureKeepsText ==
    (ModelAnswered /\ ParseFailedTwice)
        => last.val = [shape |-> "parse_error",
                       error |-> "Failed to parse LLM response",
                       raw_response |-> last.response]

NoBracePair(text) ==
    ~ \E i \in DOMAIN text : \E j \in DOMAIN text : i < j /\ text[i] = "{" /\ text[j] = "}"

\* C13: when the response is no valid JSON and holds no '{' ... '}' pair, the
\* result is exactly {"error": "Failed to parse LLM response",
\* "raw_response": the response text unchanged}.  (SpecParse)
C13_NoBracesRawText ==
    (ModelAnswered /\ json_loads(last.response) = None /\ NoBracePair(last.response))
        => last.val = [shape |-> "parse_error",
                       error |-> "Failed to parse LLM response",
                       raw_response |-> last.response]

\* Braces in the wrong order are no pair: the text comes back unchanged
C13_Witness ==
    /\ ModelAnswered
    /\ last.response = <<"}", "{">>
    /\ last.val.shape = "parse_error"
    /\ last.val.raw_response = <<"}", "{">>

\* C20: no schema is enforced: when the model's text is JSON, or prose around
\* one JSON object, the result is the parsed structure unchanged, whatever
\* its keys and however many recommendations it holds.  (SpecParse)
C20_NoSchemaValidation ==
    ModelAnswered =>
        /\ \A v \in JsonObjects \cup JsonOthers :
              last.response = Render(v) => last.val = [shape |-> "json", json |-> v]
        /\ \A J \in JsonObjects : \A lead \in Prose \ {<<>>} : \A trail \in Prose :
              last.response = lead \o Render(J) \o trail
                  => /\ last.val.shape = "json"
                     /\ last.val.json.t = "object"
                     /\ last.val.json.items = J.items

\* Four equally ranked recommendations and no general_advice come back as sent
C20_Witness ==
    /\ ModelAnswered
    /\ last.val.shape = "json"
    /\ last.val.json.t = "object"
    /\ KeySet(last.val.json.items) = {"recommendations:"}
    /\ Len(Lookup(last.val.json.items, "recommendations:").items) = 4

-----------------------------------------------------------------------------
(* Failures inside get_captain_recommendations (SpecPicks) *)

Recommended == last.op = "get_captain_recommendations"

\* a request failed, the catalog lacks the 'teams' key, or the model client failed
StepFailed == last.failed \/ "teams" \notin DOMAIN catalog \/ ~last.llm_ok

\* C14: whatever step fails between the first fetch and the model call (an
\* HTTP request, a key missing in a payload, the model client),
\* get_captain_recommendations raises nothing and returns {error, team_id}
\* with the team id it was called with.  (SpecPicks)
C14_ErrorsContained ==
    Recommended =>
        /\ last.err = "none"
        /\ StepFailed =>
              /\ DOMAIN last.val = {"shape", "error", "team_id"}
              /\ last.val.shape = "error"
              /\ last.val.error[1] = "Error getting recommendations: "
              /\ last.val.team_id = last.arg

\* The fixtures request fails for team 2 after the requests before it succeeded
C14_Witness ==
    /\ Recommended
    /\ last.failed
    /\ last.arg = 2
    /\ Len(last.reqs) >= 3
    /\ last.reqs[Len(last.reqs)] = FixturesUrl
    /\ last.val.shape = "error"
    /\ last.val.team_id = 2

\* C17: one execution of get_captain_recommendations invokes the model at
\* most once, and only when no request failed, the team info and the picks
\* were fetched, catalog and fixtures are at hand and the prompt is
\* assembled; after a failed fetch the model is not invoked.  (SpecPicks)
C17_ModelInvokedOnceAtEnd ==
    Recommended =>
        /\ last.llm <= 1
        /\ last.failed => last.llm = 0
        /\ last.llm = 1 =>
              /\ ~last.failed
              /\ last.prompt # None
              /\ EntryUrl(last.arg) \in Range(last.reqs)
              /\ \E gw \in GwIds : PicksUrl(last.arg, gw) \in Range(last.reqs)
              /\ bootstrap_cache # None
              /\ fixtures_cache # None

\* The model client fails after four successful requests: it was invoked once
C17_Witness ==
    /\ Recommended
    /\ ~last.llm_ok
    /\ last.llm = 1
    /\ Len(last.reqs) = 4
    /\ last.val.shape = "error"

-----------------------------------------------------------------------------
(* Construction and failed requests *)

\* Before any construction: no instance exists
NoInstance ==
    /\ alive = FALSE
    /\ bootstrap_cache = None
    /\ fixtures_cache = None
    /\ teams_cache = None
    /\ last = Idle
    /\ hist = [inst |-> NoHist, first_prompt |-> [t \in TeamIds |-> None]]

InitLife ==
    /\ NoInstance
    /\ catalog \in CatalogsMain
    /\ fixtures_data = TwoFixtures
    /\ picks_data = PicksFor(<<Pick(1, 2)>>)

NextLife == Construct \/ FetchBootstrap \/ GetUpcomingFixtures

SpecLife == InitLife /\ [][NextLife]_vars

\* C15: a construction with no credential, neither the openai_api_key
\* argument nor OPENAI_API_KEY in the environment, fails with the
\* configuration error; no instance results (what existed before is as it
\* was) and no request has been issued.  (SpecLife)
C15_NoCredentialNoInstance ==
    [][(/\ last'.op = "__init__"
        /\ ~TruthyStr(last'.arg[1])
        /\ ~TruthyStr(last'.arg[2]))
          => /\ last'.err = "ValueError"
             /\ last'.reqs = <<>>
             /\ alive' = alive
             /\ bootstrap_cache' = bootstrap_cache
             /\ fixtures_cache' = fixtures_cache
             /\ teams_cache' = teams_cache]_vars

\* No argument and an empty OPENAI_API_KEY: the construction has failed and
\* there is still no instance
C15_Witness ==
    /\ last.op = "__init__"
    /\ last.arg = <<None, Some("")>>
    /\ last.err = "ValueError"
    /\ ~alive

FetchOps == {"fetch_fpl_bootstrap_data", "fetch_fpl_team_data", "get_upcoming_fixtures"}

\* C16: a fetch operation one of whose requests gets no success response
\* ends with an error raised to its caller and returns no value.  (Spec)
C16_FailedFetchRaises ==
    (last.op \in FetchOps /\ last.failed)
        => /\ last.err # "none"
           /\ last.val = None

\* fetch_fpl_team_data: the team info arrives, the picks request fails
C16_Witness ==
    /\ last.op = "fetch_fpl_team_data"
    /\ last.failed
    /\ last.reqs[Len(last.reqs)].ep = "/entry/{id}/event/{gw}/picks/"
    /\ last.err = "Failed to fetch team data"
    /\ last.val = None

-----------------------------------------------------------------------------
(* The fixture digest (SpecDigest) *)

\* the i-th upstream fixture: unfinished, in gameweeks 1..3, no two alike in
\* gameweek and difficulties
FixtureNo(i) ==
    [Fixture(1 + (i % 3), FALSE, 1 + (i % 2), 2 - (i % 2))
        EXCEPT !.team_h_difficulty = 1 + ((i \div 3) % 5),
               !.team_a_difficulty = 1 + (i \div 15)]

InitDigest ==
    /\ Fresh
    /\ catalog = Payload(OneCurrent(1), <<Squad(1)>>)
    /\ \E n \in 0..MaxDigest : fixtures_data = [i \in 1..n |-> FixtureNo(i)]
    /\ picks_data = PicksFor(<<Pick(1, 2)>>)

NextDigest == GetCaptainRecommendations

SpecDigest == InitDigest /\ [][NextDigest]_vars

DigestLines == last.prompt[1].fixture_analysis

\* C18: the fixture digest has one line for each of the first min(15, n)
\* fixtures of the upcoming-fixtures list, in list order, and none for a
\* later fixture.  (SpecDigest: every upstream fixture is upcoming)
C18_FirstFifteenFixtures ==
    Assembled =>
        /\ Len(DigestLines) = IF Len(fixtures_data) < 15 THEN Len(fixtures_data) ELSE 15
        /\ \A i \in DOMAIN DigestLines :
              /\ DigestLines[i].gameweek = fixtures_data[i].event
              /\ DigestLines[i].home_team
                     = (IF fixtures_data[i].team_h = 1 THEN "ARS" ELSE "CHE")
              /\ DigestLines[i].away_team
                     = (IF fixtures_data[i].team_a = 1 THEN "ARS" ELSE "CHE")
              /\ DigestLines[i].team_h_difficulty = fixtures_data[i].team_h_difficulty
              /\ DigestLines[i].team_a_difficulty = fixtures_data[i].team_a_difficulty

\* More than fifteen upcoming fixtures: the digest stops at the fifteenth
C18_Witness ==
    /\ Assembled
    /\ Len(fixtures_data) > 15
    /\ Len(fixtures_cache[1]) = Len(fixtures_data)
    /\ Len(DigestLines) = 15
    /\ DigestLines[15].team_h_difficulty = fixtures_data[15].team_h_difficulty

-----------------------------------------------------------------------------
(* The order of players in the prompt (SpecOrder) *)

\* a catalog player with an injury note
Hurt(id) == Element(id, 1, 1, Some(50), "Knock")

\* every order of the catalog's players
CatalogOrders ==
    {els \in [1..(MaxPlayers + 1) -> {Hurt(id) : id \in PlayerIds}] : DistinctIds(els)}

\* full squads of plain starters (multiplier 1)
StartingSquads ==
    {p \in PickLists : Len(p) = MaxPlayers /\ \A i \in DOMAIN p : p[i].multiplier = 1}

InitOrder ==
    /\ Fresh
    /\ \E els \in CatalogOrders : catalog = Payload(OneCurrent(1), els)
    /\ fixtures_data = TwoFixtures
    /\ \E p \in StartingSquads : picks_data = PicksFor(p)

NextOrder == GetCaptainRecommendations

SpecOrder == InitOrder /\ [][NextOrder]_vars

\* where the player of that name sits in the catalog's elements list
NamePos(name) ==
    CHOOSE i \in DOMAIN Elements :
        <<Elements[i].first_name, " ", Elements[i].second_name>> = name

InCatalogOrder(section) ==
    \A m \in DOMAIN section : \A n \in DOMAIN section :
        m < n => NamePos(section[m].name) < NamePos(section[n].name)

\* C19: in the eligible candidates, the injury lines and the ownership lines
\* of the prompt the players come in the order of the catalog's elements
\* list, whatever the order of the picks.  (SpecOrder)
C19_CatalogOrder ==
    Assembled =>
        /\ InCatalogOrder(last.prompt[1].player_details)
        /\ InCatalogOrder(last.prompt[1].injury_news)
        /\ InCatalogOrder(last.prompt[1].ownership_info)

\* Two picks that the catalog lists in the other order than the team does
C19_Witness ==
    /\ Assembled
    /\ Len(last.prompt[1].player_details) = 2
    /\ Len(last.prompt[1].injury_news) = 2
    /\ Len(last.prompt[1].ownership_info) = 2
    /\ \E i \in DOMAIN SquadPicks : \E j \in DOMAIN SquadPicks :
          /\ i < j
          /\ last.eligible = <<SquadPicks[j].element, SquadPicks[i].element>>

-----------------------------------------------------------------------------
(* The shape of what get_captain_recommendations returns *)

\* the returned value is a mapping that holds the key named
HasKey(val, key) ==
    IF val.shape = "json"
    THEN val.json.t = "object" /\ key \in KeySet(val.json.items)
    ELSE key = "error:" /\ "error" \in DOMAIN val

\* C21: whatever the model's text, get_captain_recommendations returns a
\* mapping that holds the key 'error' or the key 'recommendations', also when
\* the text is valid JSON that is no object.  (SpecParse)
C21_MappingWithErrorOrRecommendations ==
    Recommended =>
        HasKey(last.val, "error:") \/ HasKey(last.val, "recommendations:")

-----------------------------------------------------------------------------
(* Failed and empty fetches (Spec) *)

UrlOf(op) == IF op = "fetch_fpl_bootstrap_data" THEN BootstrapUrl ELSE FixturesUrl

\* the operation's own cache holds nothing a later call would be served from
Unpopulated(op, bc, fc) ==
    IF op = "fetch_fpl_bootstrap_data"
    THEN ~BootstrapCacheHit(St(bc, fc, None))
    ELSE ~FixturesCacheHit(St(bc, fc, None))

\* C22: when a request of fetch_fpl_bootstrap_data or of
\* get_upcoming_fixtures fails (for fixtures also the catalog request of the
\* gameweek resolution inside it), both caches keep their values, the cache
\* of the operation holds nothing, and the next call of the same operation
\* on the instance starts with a new request to the operation's URL.  (Spec)
C22_FailedFetchLeavesCaches ==
    [][/\ (last'.op \in CachedOps /\ last'.failed)
            => /\ last'.err # "none"
               /\ bootstrap_cache' = bootstrap_cache
               /\ fixtures_cache' = fixtures_cache
               /\ Unpopulated(last'.op, bootstrap_cache', fixtures_cache')
       /\ (last'.op \in CachedOps /\ last'.before = "failed")
            => /\ last'.reqs # <<>>
               /\ last'.reqs[1] = UrlOf(last'.op)]_vars

\* get_upcoming_fixtures is called again after a call of it failed: it
\* requests the fixtures anew, the catalog request inside it fails this time,
\* and both caches are still empty
C22_Witness ==
    /\ last.op = "get_upcoming_fixtures"
    /\ last.before = "failed"
    /\ last.failed
    /\ last.reqs = <<FixturesUrl, BootstrapUrl>>
    /\ bootstrap_cache = None
    /\ fixtures_cache = None

\* the gameweek the instance resolves after a successful call: from the
\* catalog payload it holds
HeldGameweek == ResolveGameweek(Get(bootstrap_cache[1], "events", <<>>))

\* C23: when the call before was the same operation on the same instance and
\* returned an empty fixture list or an empty catalog payload, this call
\* starts with a request to the operation's URL; a get_upcoming_fixtures
\* that then succeeds returns the fixtures of its own window size.  (Spec)
C23_EmptyNotCached ==
    (last.op \in CachedOps /\ last.before = "empty")
        => /\ last.reqs # <<>>
           /\ last.reqs[1] = UrlOf(last.op)
           /\ (last.op = "get_upcoming_fixtures" /\ last.err = "none")
                 => last.val = UpcomingOf(fixtures_data, HeldGameweek, last.arg)
           /\ (last.op = "fetch_fpl_bootstrap_data" /\ last.err = "none")
                 => last.val = catalog

\* After a call whose window held no fixture, a call with a wider window
\* fetches again and returns fixtures
C23_Witness ==
    /\ last.op = "get_upcoming_fixtures"
    /\ last.before = "empty"
    /\ last.err = "none"
    /\ last.arg = 3
    /\ last.reqs[1] = FixturesUrl
    /\ Len(last.val) >= 1

-----------------------------------------------------------------------------
(* The three per-player mappings (SpecKeys) *)

\* players that differ in their ids and in what is reported of them; the
\* catalogs of SpecKeys list them by ascending id
ReportPool ==
    {Element(id, 1, 1, rep[1], rep[2]) :
        id \in PlayerIds, rep \in {<<None, "">>, <<Some(50), "Knock">>}}

InitKeys ==
    /\ Fresh
    /\ \E els \in SeqsUpTo(ReportPool, MaxPlayers) :
          /\ \A i \in DOMAIN els : \A j \in DOMAIN els : i < j => els[i].id < els[j].id
          /\ catalog = Payload(OneCurrent(1), els)
    /\ fixtures_data = <<>>
    /\ picks_data = NoPicks

NextKeys == GetPlayerPerformanceData \/ GetInjuryUpdates \/ GetOwnershipStats

SpecKeys == InitKeys /\ [][NextKeys]_vars

MapperOps == {"get_player_performance_data", "get_injury_updates", "get_ownership_stats"}

\* C24: on one catalog and one id list each of get_player_performance_data,
\* get_injury_updates and get_ownership_stats returns a mapping whose keys
\* are exactly the listed ids that the catalog holds: the three key sets are
\* identical, and every key of the injury and of the ownership mapping is a
\* key of player_stats.  (SpecKeys)
C24_IdenticalKeySets ==
    (last.op \in MapperOps /\ last.err = "none")
        => KeySet(last.val) = CatalogIds \cap Range(last.arg)

\* get_injury_updates keeps the listed player of whom nothing is reported;
\* the other listed id is in no catalog entry, the other catalog player is
\* not listed
C24_Witness ==
    /\ last.op = "get_injury_updates"
    /\ last.err = "none"
    /\ Len(last.arg) = 2
    /\ Len(Elements) = 2
    /\ Len(last.val) = 1
    /\ last.val[1][2] = <<"Available">>

-----------------------------------------------------------------------------
(* The injury and ownership sections of the prompt (SpecPicks) *)

\* the squad picks that the catalog holds
PicksInCatalog == {SquadPicks[i].element : i \in DOMAIN SquadPicks} \cap CatalogIds

NameOf(id) == <<ElementWithId(id).first_name, " ", ElementWithId(id).second_name>>

\* the catalog reports a chance of playing below 100 or a news text
Reported(id) ==
    \/ /\ ElementWithId(id).chance_of_playing_next_round # None
       /\ ElementWithId(id).chance_of_playing_next_round[1] < 100
    \/ ElementWithId(id).news # ""

ReportedPicks == {id \in PicksInCatalog : Reported(id)}

NamesIn(section) == {section[n].name : n \in DOMAIN section}

\* C25: the ownership section of the prompt has exactly one line for every
\* squad pick that the catalog holds, and the injury section exactly one line
\* for every such pick of which an injury risk or news is reported, bench
\* picks (multiplier 0) included; only player_details leaves the bench out.
\* (SpecPicks)
C25_BenchInInjuryAndOwnership ==
    Assembled =>
        /\ Len(last.prompt[1].ownership_info) = Cardinality(PicksInCatalog)
        /\ NamesIn(last.prompt[1].ownership_info) = {NameOf(id) : id \in PicksInCatalog}
        /\ Len(last.prompt[1].injury_news) = Cardinality(ReportedPicks)
        /\ NamesIn(last.prompt[1].injury_news) = {NameOf(id) : id \in ReportedPicks}

\* The injured player 2 sits on the bench: no candidate entry for them, but
\* an injury line and an ownership line
C25_Witness ==
    /\ Assembled
    /\ \E i \in DOMAIN SquadPicks :
          SquadPicks[i].element = 2 /\ SquadPicks[i].multiplier = 0
    /\ 2 \notin Range(last.eligible)
    /\ NameOf(2) \in NamesIn(last.prompt[1].injury_news)
    /\ NameOf(2) \in NamesIn(last.prompt[1].ownership_info)

-----------------------------------------------------------------------------
(* The requests of one recommendation (SpecPrompt) *)

IsPrefix(s, t) == Len(s) <= Len(t) /\ \A i \in DOMAIN s : s[i] = t[i]

\* C26: a recommendation on a fresh instance requests the team info, the
\* catalog, the picks of the resolved gameweek and the fixtures, in this
\* order and each once, stopping at the first request that fails; a
\* recommendation on an instance with populated caches requests the team
\* info and the picks only.  (SpecPrompt)
C26_RequestOrder ==
    Recommended =>
        /\ last.start = "fresh" =>
              /\ IsPrefix(last.reqs, <<EntryUrl(last.arg), BootstrapUrl,
                                       PicksUrl(last.arg, CurrentGW), FixturesUrl>>)
              /\ ~last.failed => Len(last.reqs) = 4
        /\ last.start = "populated" =>
              /\ IsPrefix(last.reqs, <<EntryUrl(last.arg), PicksUrl(last.arg, CurrentGW)>>)
              /\ ~last.failed => Len(last.reqs) = 2

=============================================================================
